---- MODULE Spec2Model ----
(***************************************************************************)
(* A model of changesets-changelog-github-local: the helpers of            *)
(* src/_utils.ts and the two changelog functions of src/index.ts.          *)
(*                                                                         *)
(* A JavaScript string is a sequence of one-character strings, so that     *)
(* the regular expressions, split, trim and slice of the source work on    *)
(* characters.  An optional value (string | undefined) is a record         *)
(* [def |-> BOOLEAN, s |-> string]; an optional number is                  *)
(* [def |-> BOOLEAN, n |-> Nat].                                           *)
(***************************************************************************)
EXTENDS Integers, Sequences, FiniteSets, TLC

VARIABLES pc, call, outcome, events

vars == <<pc, call, outcome, events>>

----------------------------------------------------------------------------
(* Characters and character classes of the regular expressions.            *)

\* \s and String.prototype.trim: white space and line terminators.
WhiteSpace == {" ", "\t", "\n", "\r", "\f"}

\* The characters after which ^ matches under the m flag.
LineTerminators == {"\n", "\r"}

DigitChars == <<"0", "1", "2", "3", "4", "5", "6", "7", "8", "9">>

IsWs(c) == c \in WhiteSpace

DigitValue(c) == (CHOOSE i \in 1..10 : DigitChars[i] = c) - 1

UpperLetters == <<"A", "B", "C", "D", "E", "F", "G", "H", "I", "J", "K", "L", "M",
                  "N", "O", "P", "Q", "R", "S", "T", "U", "V", "W", "X", "Y", "Z">>

LowerLetters == <<"a", "b", "c", "d", "e", "f", "g", "h", "i", "j", "k", "l", "m",
                  "n", "o", "p", "q", "r", "s", "t", "u", "v", "w", "x", "y", "z">>

\* The i flag: letters compare without case.
Fold(c) ==
  IF \E i \in 1..26 : UpperLetters[i] = c
  THEN LowerLetters[CHOOSE i \in 1..26 : UpperLetters[i] = c]
  ELSE c

----------------------------------------------------------------------------
(* String primitives of JavaScript used by the source.                     *)

Undefined == [def |-> FALSE, s |-> <<>>]

Some(s) == [def |-> TRUE, s |-> s]

NoNumber == [def |-> FALSE, n |-> 0]

SomeNumber(n) == [def |-> TRUE, n |-> n]

\* The first position q >= p of s that is past the end or holds a character
\* outside the set C: the end of a greedy run of C.
SkipIn(s, p, C) ==
  CHOOSE q \in p..(Len(s) + 1) :
    /\ \A k \in p..(q - 1) : s[k] \in C
    /\ (q = Len(s) + 1 \/ s[q] \notin C)

\* The same for a negated class: the end of a greedy run of characters
\* outside C.
SkipNotIn(s, p, C) ==
  CHOOSE q \in p..(Len(s) + 1) :
    /\ \A k \in p..(q - 1) : s[k] \notin C
    /\ (q = Len(s) + 1 \/ s[q] \in C)

Digits == {DigitChars[i] : i \in 1..10}

\* s.trim()
Trim(s) ==
  LET b == SkipIn(s, 1, WhiteSpace)
      e == IF b > Len(s) THEN Len(s)
           ELSE CHOOSE j \in b..Len(s) :
                  /\ ~IsWs(s[j])
                  /\ \A k \in (j + 1)..Len(s) : IsWs(s[k])
  IN  SubSeq(s, b, e)

\* s.slice(0, n)
SliceTo(s, n) == SubSeq(s, 1, IF n < Len(s) THEN n ELSE Len(s))

IndexOfNewline(s) ==
  IF \E i \in 1..Len(s) : s[i] = "\n"
  THEN CHOOSE i \in 1..Len(s) : s[i] = "\n" /\ \A k \in 1..(i - 1) : s[k] # "\n"
  ELSE 0

RECURSIVE Split(_)
\* s.split('\n'): the lines of s; the empty string has one (empty) line.
Split(s) ==
  LET i == IndexOfNewline(s)
  IN  IF i = 0 THEN <<s>>
      ELSE <<SubSeq(s, 1, i - 1)>> \o Split(SubSeq(s, i + 1, Len(s)))

RECURSIVE Join(_, _)
\* parts.join(sep)
Join(parts, sep) ==
  IF Len(parts) = 0 THEN <<>>
  ELSE IF Len(parts) = 1 THEN parts[1]
  ELSE parts[1] \o sep \o Join(Tail(parts), sep)

RECURSIVE ParseInt(_)
\* Number.parseInt(digits, 10) of a non-empty run of digits.
ParseInt(digits) ==
  IF Len(digits) = 0 THEN 0
  ELSE 10 * ParseInt(SubSeq(digits, 1, Len(digits) - 1))
         + DigitValue(digits[Len(digits)])

RECURSIVE NumberToString(_)
\* The template literal of a non-negative integer: its decimal digits.
NumberToString(n) ==
  IF n < 10 THEN <<DigitChars[n + 1]>>
  ELSE NumberToString(n \div 10) \o <<DigitChars[(n % 10) + 1]>>

\* Whether the literal lit (lower case) stands at position p of s, letters
\* compared without case.
LitAt(s, p, lit) ==
  /\ p + Len(lit) - 1 <= Len(s)
  /\ \A i \in 1..Len(lit) : Fold(s[p + i - 1]) = lit[i]

\* ^ under the m flag.
IsLineStart(s, p) == p = 1 \/ s[p - 1] \in LineTerminators

----------------------------------------------------------------------------
(* cleanSummary: the three regular expressions.  Each XxxMatchEnd(s, p) is  *)
(* the position just past the match that starts at p, or 0 when the        *)
(* expression does not match at p.                                         *)

\* \s*#?(\d+) from position r.
PrValueEnd(s, r) ==
  LET t == SkipIn(s, r, WhiteSpace)
      u == IF t <= Len(s) /\ s[t] = "#" THEN t + 1 ELSE t
      e == SkipIn(s, u, Digits)
  IN  IF e > u THEN e ELSE 0

\* \s*(\S+) from position r; @?(\S+) matches the same run.
TokenValueEnd(s, r) ==
  LET t == SkipIn(s, r, WhiteSpace)
      e == SkipNotIn(s, t, WhiteSpace)
  IN  IF e > t THEN e ELSE 0

\* (?:pr|pull|pull\s+request): from position q: the position past the colon.
PrPrefixEnd(s, q) ==
  IF LitAt(s, q, <<"p", "r", ":">>) THEN q + 3
  ELSE IF LitAt(s, q, <<"p", "u", "l", "l", ":">>) THEN q + 5
  ELSE IF LitAt(s, q, <<"p", "u", "l", "l">>)
  THEN LET w == SkipIn(s, q + 4, WhiteSpace)
       IN  IF w > q + 4 /\ LitAt(s, w, <<"r", "e", "q", "u", "e", "s", "t", ":">>)
           THEN w + 8 ELSE 0
  ELSE 0

\* /^\s*(?:pr|pull|pull\s+request):\s*#?(\d+)/im at line start p.
PrMatchEnd(s, p) ==
  LET r == PrPrefixEnd(s, SkipIn(s, p, WhiteSpace))
  IN  IF r = 0 THEN 0 ELSE PrValueEnd(s, r)

\* /^\s*commit:\s*(\S+)/im at line start p.
CommitMatchEnd(s, p) ==
  LET q == SkipIn(s, p, WhiteSpace)
  IN  IF LitAt(s, q, <<"c", "o", "m", "m", "i", "t", ":">>)
      THEN TokenValueEnd(s, q + 7) ELSE 0

\* /^\s*(?:author|user):\s*@?(\S+)/gim at line start p.
AuthorMatchEnd(s, p) ==
  LET q == SkipIn(s, p, WhiteSpace)
  IN  IF LitAt(s, q, <<"a", "u", "t", "h", "o", "r", ":">>)
      THEN TokenValueEnd(s, q + 7)
      ELSE IF LitAt(s, q, <<"u", "s", "e", "r", ":">>)
      THEN TokenValueEnd(s, q + 5) ELSE 0

\* The expression re ("pr", "commit" or "author") at line start p.
MatchEnd(re, s, p) ==
  CASE re = "pr" -> PrMatchEnd(s, p)
    [] re = "commit" -> CommitMatchEnd(s, p)
    [] re = "author" -> AuthorMatchEnd(s, p)

\* The start of the leftmost match of re at or after position from, or 0.
MatchStart(re, s, from) ==
  LET starts == {p \in from..Len(s) : IsLineStart(s, p) /\ MatchEnd(re, s, p) # 0}
  IN  IF starts = {} THEN 0
      ELSE CHOOSE p \in starts : \A o \in starts : p <= o

\* s.replace(re, '') without the g flag: the leftmost match is removed.
ReplaceFirst(re, s) ==
  LET p == MatchStart(re, s, 1)
  IN  IF p = 0 THEN s
      ELSE SubSeq(s, 1, p - 1) \o SubSeq(s, MatchEnd(re, s, p), Len(s))

RECURSIVE ReplaceAllAuthorsFrom(_, _)
\* s.replace(re, '') with the g flag, for the author expression: every match
\* of a left-to-right scan of the original string is removed; the text from
\* position from on (the scan resumes at the end of the previous match).
ReplaceAllAuthorsFrom(s, from) ==
  LET p == MatchStart("author", s, from)
  IN  IF p = 0 THEN SubSeq(s, from, Len(s))
      ELSE SubSeq(s, from, p - 1) \o ReplaceAllAuthorsFrom(s, AuthorMatchEnd(s, p))

cleanSummary(summary) ==
  Trim(ReplaceAllAuthorsFrom(
         ReplaceFirst("commit", ReplaceFirst("pr", summary)), 1))

----------------------------------------------------------------------------
(* getPrNumber                                                             *)

\* \(#(\d+)\)$ at position p: the digits matched, or <<>>.
ParenRefAt(s, p) ==
  IF LitAt(s, p, <<"(", "#">>)
  THEN LET e == SkipIn(s, p + 2, Digits)
       IN  IF e > p + 2 /\ e = Len(s) /\ s[e] = ")"
           THEN SubSeq(s, p + 2, e - 1) ELSE <<>>
  ELSE <<>>

\* A variant of BareRefAt without the end anchor: any "#<digits>" matches.
BareRefAtUnanchored(s, p) ==
  IF LitAt(s, p, <<"#">>)
  THEN LET e == SkipIn(s, p + 1, Digits)
       IN  IF e > p + 1 THEN SubSeq(s, p + 1, e - 1) ELSE <<>>
  ELSE <<>>

\* #(\d+)\s*$ at position p: the digits matched, or <<>>.
BareRefAt(s, p) ==
  IF LitAt(s, p, <<"#">>)
  THEN LET e == SkipIn(s, p + 1, Digits)
       IN  IF e > p + 1 /\ SkipIn(s, e, WhiteSpace) = Len(s) + 1
           THEN SubSeq(s, p + 1, e - 1) ELSE <<>>
  ELSE <<>>

\* firstLine.match(/\(#(\d+)\)$|#(\d+)\s*$/): match[1] || match[2] of the
\* leftmost match (the alternatives tried in order at each position), or <<>>.
PrRefDigits(s) ==
  LET hits == {p \in 1..Len(s) : ParenRefAt(s, p) # <<>> \/ BareRefAt(s, p) # <<>>}
  IN  IF hits = {} THEN <<>>
      ELSE LET p == CHOOSE h \in hits : \A o \in hits : h <= o
           IN  IF ParenRefAt(s, p) # <<>> THEN ParenRefAt(s, p) ELSE BareRefAt(s, p)

\* A variant of getPrNumber that searches the whole trimmed message.
getPrNumberWholeMessage(commitMessage) ==
  IF ~commitMessage.def \/ commitMessage.s = <<>> THEN NoNumber
  ELSE LET prNumber == PrRefDigits(Trim(commitMessage.s))
       IN  IF prNumber = <<>> THEN NoNumber ELSE SomeNumber(ParseInt(prNumber))

\* commitMessage is an optional string; the result is an optional number.
getPrNumber(commitMessage) ==
  IF ~commitMessage.def \/ commitMessage.s = <<>> THEN NoNumber
  ELSE LET firstLine == Trim(Split(commitMessage.s)[1])
           prNumber == PrRefDigits(firstLine)
       IN  IF prNumber = <<>> THEN NoNumber ELSE SomeNumber(ParseInt(prNumber))

----------------------------------------------------------------------------
(* The options object and validate.  A JavaScript value is                 *)
(* [t |-> its type, s |-> its characters (a string), n |-> its value (a    *)
(* number), b |-> its value (a boolean)]; options is null or an object     *)
(* with the value of its repo property (undefined when it has none).       *)

JsUndefined == [t |-> "undefined", s |-> <<>>, n |-> 0, b |-> FALSE]

JsNull == [t |-> "null", s |-> <<>>, n |-> 0, b |-> FALSE]

JsString(s) == [t |-> "string", s |-> s, n |-> 0, b |-> FALSE]

JsNumber(n) == [t |-> "number", s |-> <<>>, n |-> n, b |-> FALSE]

JsBoolean(b) == [t |-> "boolean", s |-> <<>>, n |-> 0, b |-> b]

JsObject == [t |-> "object", s |-> <<>>, n |-> 0, b |-> FALSE]

\* ToBoolean of a JavaScript value.
Truthy(v) ==
  CASE v.t = "string" -> v.s # <<>>
    [] v.t = "number" -> v.n # 0
    [] v.t = "boolean" -> v.b
    [] v.t = "object" -> TRUE
    [] OTHER -> FALSE

NullOptions == [isNull |-> TRUE, repo |-> JsUndefined]

Options(repo) == [isNull |-> FALSE, repo |-> repo]

\* A variant of ORG_REPO_REGEX without the $ anchor.
ORG_REPO_REGEX_Unanchored(s) ==
  LET a == SkipNotIn(s, 1, WhiteSpace \cup {"/"})
      b == SkipNotIn(s, a + 1, WhiteSpace \cup {"/"})
  IN  /\ a > 1
      /\ a <= Len(s) /\ s[a] = "/"
      /\ b > a + 1

\* ORG_REPO_REGEX.test(s): /^[^/\s]+\/[^/\s]+$/
ORG_REPO_REGEX(s) ==
  LET a == SkipNotIn(s, 1, WhiteSpace \cup {"/"})
      b == SkipNotIn(s, a + 1, WhiteSpace \cup {"/"})
  IN  /\ a > 1
      /\ a <= Len(s) /\ s[a] = "/"
      /\ b > a + 1
      /\ b = Len(s) + 1

MissingRepoError ==
  "Please provide a repo for this changelog generator.\n\"example\": [\"changesets-changelog-github-local\", { \"repo\": \"org/repo\" }]"

InvalidRepoFormatError == "Invalid repo format. Please use the format \"org/repo\""

NoError == ""

\* The message of the error validate throws, or NoError when it returns.
validate(options) ==
  IF options.isNull \/ ~Truthy(options.repo) THEN MissingRepoError
  ELSE IF options.repo.t # "string" \/ ~ORG_REPO_REGEX(options.repo.s)
  THEN InvalidRepoFormatError
  ELSE NoError

----------------------------------------------------------------------------
(* URLs, the short hash and the suffix; options are valid here.            *)

ShortShaLength == 7

\* The grave accent (U+0060) of the Markdown code span; the parser of this
\* language does not read that character inside a string.
Backtick == "U+0060"

getRepoUrl(options) == <<"h", "t", "t", "p", "s", ":", "/", "/", "g", "i", "t", "h", "u", "b", ".", "c", "o", "m", "/">> \o options.repo.s

getCommitUrl(options, commitHash) ==
  getRepoUrl(options) \o <<"/", "c", "o", "m", "m", "i", "t", "/">> \o commitHash

getPrUrl(options, prNumber) ==
  getRepoUrl(options) \o <<"/", "p", "u", "l", "l", "/">> \o NumberToString(prNumber)

getShortSha(commitHash) == SliceTo(commitHash, ShortShaLength)

\* pr is an optional number, commitSha an optional string; if (pr) and
\* if (commitSha) test truthiness: 0 and '' are falsy.
getSuffix(pr, commitSha, options) ==
  IF pr.def /\ pr.n # 0
  THEN <<" ", "(", "[", "#">> \o NumberToString(pr.n) \o <<"]", "(">> \o getPrUrl(options, pr.n) \o <<")", ")">>
  ELSE IF commitSha.def /\ commitSha.s # <<>>
  THEN <<" ", "(", "[", Backtick>> \o getShortSha(commitSha.s) \o <<Backtick, "]", "(">>
         \o getCommitUrl(options, commitSha.s) \o <<")", ")">>
  ELSE <<>>

----------------------------------------------------------------------------
(* The environment of a call, and what a call leaves behind.  An event is  *)
(* one observable step: [ev |-> its kind, s |-> a string argument,         *)
(* note |-> a text].                                                       *)

Ev(e) == [ev |-> e, s |-> <<>>, note |-> ""]

EvWith(e, s, note) == [ev |-> e, s |-> s, note |-> note]

ShallowWarningCI ==
  "The repository is shallow cloned, so PR links may not work. See https://github.com/actions/checkout#fetch-all-history-for-all-tags-and-branches to fetch all the history."

ShallowWarning == "The repository is shallow cloned, so PR links may not work."

DiscoverFailedPrefix == "Repository.discover failed: "

LookupWarningPrefix == "Failed to get commit message for "

\* A variant of getRepository whose catch block returns instead of throwing.
getRepositoryLenient(repo) ==
  IF repo.discover = "throws"
  THEN [error |-> NoError, events |-> <<Ev("discover")>>]
  ELSE IF repo.shallow = "throws"
  THEN [error |-> NoError, events |-> <<Ev("discover"), Ev("isShallow")>>]
  ELSE IF repo.shallow = "yes"
  THEN [error |-> NoError,
        events |-> <<Ev("discover"), Ev("isShallow"),
                     EvWith("warn", <<>>,
                            IF repo.githubAction THEN ShallowWarningCI
                            ELSE ShallowWarning)>>]
  ELSE [error |-> NoError, events |-> <<Ev("discover"), Ev("isShallow")>>]

\* getRepository under repo = [discover |-> "ok" | "throws",
\* shallow |-> "no" | "yes" | "throws", githubAction |-> BOOLEAN,
\* cause |-> the message of what is thrown]: the error it throws (NoError
\* when it returns the repository) and its events.
getRepository(repo) ==
  IF repo.discover = "throws"
  THEN [error |-> DiscoverFailedPrefix \o repo.cause,
        events |-> <<Ev("discover")>>]
  ELSE IF repo.shallow = "throws"
  THEN [error |-> DiscoverFailedPrefix \o repo.cause,
        events |-> <<Ev("discover"), Ev("isShallow")>>]
  ELSE IF repo.shallow = "yes"
  THEN [error |-> NoError,
        events |-> <<Ev("discover"), Ev("isShallow"),
                     EvWith("warn", <<>>,
                            IF repo.githubAction THEN ShallowWarningCI
                            ELSE ShallowWarning)>>]
  ELSE [error |-> NoError, events |-> <<Ev("discover"), Ev("isShallow")>>]

Thrown(error, evs) ==
  [kind |-> "throw", value |-> <<>>, error |-> error, events |-> evs]

Returned(value, evs) ==
  [kind |-> "return", value |-> value, error |-> NoError, events |-> evs]

\* A variant of IsCommit that takes every change record to have a commit.
IsCommitAlways(c) == TRUE

\* if (changeset.commit)
IsCommit(c) == c.def /\ c.s # <<>>

\* A variant of CommitLookup whose catch block logs nothing.
CommitLookupSilent(commit, lookup) ==
  IF lookup.find = "throws"
  THEN [commitMsg |-> Undefined, events |-> <<EvWith("findCommit", commit, "")>>]
  ELSE IF lookup.find = "null"
  THEN [commitMsg |-> Undefined, events |-> <<EvWith("findCommit", commit, "")>>]
  ELSE IF lookup.message = "throws"
  THEN [commitMsg |-> Undefined,
        events |-> <<EvWith("findCommit", commit, ""), Ev("message")>>]
  ELSE [commitMsg |-> IF lookup.message = "string" /\ lookup.text # <<>>
                      THEN Some(Trim(Split(lookup.text)[1]))
                      ELSE Undefined,
        events |-> <<EvWith("findCommit", commit, ""), Ev("message")>>]

\* The try block of getReleaseLine under lookup = [find |-> "throws" |
\* "null" | "commit", message |-> "throws" | "null" | "string",
\* text |-> the message, cause |-> the message of what is thrown]:
\* commitMsg and the events.
CommitLookup(commit, lookup) ==
  IF lookup.find = "throws"
  THEN [commitMsg |-> Undefined,
        events |-> <<EvWith("findCommit", commit, ""),
                     EvWith("warn", commit, LookupWarningPrefix \o lookup.cause)>>]
  ELSE IF lookup.find = "null"
  THEN [commitMsg |-> Undefined, events |-> <<EvWith("findCommit", commit, "")>>]
  ELSE IF lookup.message = "throws"
  THEN [commitMsg |-> Undefined,
        events |-> <<EvWith("findCommit", commit, ""), Ev("message"),
                     EvWith("warn", commit, LookupWarningPrefix \o lookup.cause)>>]
  ELSE [commitMsg |-> IF lookup.message = "string" /\ lookup.text # <<>>
                      THEN Some(Trim(Split(lookup.text)[1]))
                      ELSE Undefined,
        events |-> <<EvWith("findCommit", commit, ""), Ev("message")>>]

\* A variant of Indent that puts one space before a line.
IndentOneSpace(lines) == [i \in 1..Len(lines) |-> <<" ">> \o lines[i]]

\* restOfLines.map(l => '  ' + l)
Indent(lines) == [i \in 1..Len(lines) |-> <<" ", " ">> \o lines[i]]

SuffixEvents(pr, commitSha) ==
  IF (pr.def /\ pr.n # 0) \/ IsCommit(commitSha) THEN <<Ev("getRepoUrl")>> ELSE <<>>

\* A variant of getReleaseLine that discovers the repository only for a
\* change record with a commit, after the summary is cleaned.
getReleaseLineLazyDiscovery(changeset, options, repo, lookup) ==
  IF validate(options) # NoError
  THEN Thrown(validate(options), <<Ev("validate")>>)
  ELSE
    LET repository == IF IsCommit(changeset.commit) THEN getRepository(repo)
                      ELSE [error |-> NoError, events |-> <<>>]
    IN  IF repository.error # NoError
        THEN Thrown(repository.error,
                    <<Ev("validate"), Ev("cleanSummary")>> \o repository.events)
        ELSE
          LET lines == Split(cleanSummary(changeset.summary))
              found == IF IsCommit(changeset.commit)
                       THEN CommitLookup(changeset.commit.s, lookup)
                       ELSE [commitMsg |-> Undefined, events |-> <<>>]
              pr == getPrNumber(found.commitMsg)
              suffix == getSuffix(pr, changeset.commit, options)
          IN  Returned(<<"\n", "-", " ">> \o lines[1] \o suffix \o <<"\n">>
                         \o Join(Indent(Tail(lines)), <<"\n">>),
                       <<Ev("validate"), Ev("cleanSummary")>> \o repository.events
                         \o found.events \o SuffixEvents(pr, changeset.commit))

\* A variant of getReleaseLine that takes the PR number from the pr entry
\* of the summary when there is one.
getReleaseLineSummaryPr(changeset, options, repo, lookup) ==
  IF validate(options) # NoError
  THEN Thrown(validate(options), <<Ev("validate")>>)
  ELSE
    LET repository == getRepository(repo)
    IN  IF repository.error # NoError
        THEN Thrown(repository.error, <<Ev("validate")>> \o repository.events)
        ELSE
          LET summary == cleanSummary(changeset.summary)
              found == IF IsCommit(changeset.commit)
                       THEN CommitLookup(changeset.commit.s, lookup)
                       ELSE [commitMsg |-> Undefined, events |-> <<>>]
              lines == Split(summary)
              p == MatchStart("pr", changeset.summary, 1)
              e == MatchEnd("pr", changeset.summary, p)
              k == CHOOSE k \in (p + 1)..(e - 1) :
                     /\ \A j \in k..(e - 1) : changeset.summary[j] \in Digits
                     /\ changeset.summary[k - 1] \notin Digits
              pr == IF p # 0
                    THEN SomeNumber(ParseInt(SubSeq(changeset.summary, k, e - 1)))
                    ELSE getPrNumber(found.commitMsg)
              suffix == getSuffix(pr, changeset.commit, options)
          IN  Returned(<<"\n", "-", " ">> \o lines[1] \o suffix \o <<"\n">>
                         \o Join(Indent(Tail(lines)), <<"\n">>),
                       <<Ev("validate")>> \o repository.events
                         \o <<Ev("cleanSummary")>> \o found.events
                         \o SuffixEvents(pr, changeset.commit))

getReleaseLine(changeset, options, repo, lookup) ==
  IF validate(options) # NoError
  THEN Thrown(validate(options), <<Ev("validate")>>)
  ELSE
    LET repository == getRepository(repo)
    IN  IF repository.error # NoError
        THEN Thrown(repository.error, <<Ev("validate")>> \o repository.events)
        ELSE
          LET summary == cleanSummary(changeset.summary)
              found == IF IsCommit(changeset.commit)
                       THEN CommitLookup(changeset.commit.s, lookup)
                       ELSE [commitMsg |-> Undefined, events |-> <<>>]
              lines == Split(summary)
              firstLine == lines[1]
              restOfLines == Tail(lines)
              pr == getPrNumber(found.commitMsg)
              suffix == getSuffix(pr, changeset.commit, options)
          IN  Returned(<<"\n", "-", " ">> \o firstLine \o suffix \o <<"\n">>
                         \o Join(Indent(restOfLines), <<"\n">>),
                       <<Ev("validate")>> \o repository.events
                         \o <<Ev("cleanSummary")>> \o found.events
                         \o SuffixEvents(pr, changeset.commit))

\* changesets.map(...).filter(Boolean)
RECURSIVE CommitLinks(_, _)
CommitLinks(changesets, options) ==
  IF Len(changesets) = 0 THEN <<>>
  ELSE LET c == changesets[1]
       IN  (IF IsCommit(c.commit)
            THEN << <<"[", Backtick>> \o getShortSha(c.commit.s) \o <<Backtick, "]", "(">>
                      \o getCommitUrl(options, c.commit.s) \o <<")">> >>
            ELSE <<>>)
           \o CommitLinks(Tail(changesets), options)

\* A variant of BumpLine that prints the version the package had.
BumpLineOldVersion(d) == <<" ", " ", "-", " ">> \o d.name \o <<"@">> \o d.oldVersion

\* d => '  - ${d.name}@${d.newVersion}'
BumpLine(d) == <<" ", " ", "-", " ">> \o d.name \o <<"@">> \o d.newVersion

\* The header and the list of getDependencyReleaseLine, past its two guards.
DependencyBlock(changesets, dependenciesUpdated, options) ==
  LET links == CommitLinks(changesets, options)
      changesetLink == <<"-", " ", "U", "p", "d", "a", "t", "e", "d", " ", "d", "e", "p", "e", "n", "d", "e", "n", "c", "i", "e", "s", " ", "[">> \o Join(links, <<",", " ">>)
                         \o <<"]", ":">>
      updatedDependenciesList ==
        [i \in 1..Len(dependenciesUpdated) |-> BumpLine(dependenciesUpdated[i])]
  IN  Returned(Join(<<changesetLink>> \o updatedDependenciesList, <<"\n">>),
               <<Ev("validate")>> \o [i \in 1..Len(links) |-> Ev("getRepoUrl")])

\* A variant of getDependencyReleaseLine without the test for an empty list
\* of bumps.
getDependencyReleaseLineNoEmptyTest(changesets, dependenciesUpdated, options) ==
  IF validate(options) # NoError
  THEN Thrown(validate(options), <<Ev("validate")>>)
  ELSE DependencyBlock(changesets, dependenciesUpdated, options)

\* A variant of getDependencyReleaseLine that looks at the list of bumps
\* before it validates.
getDependencyReleaseLineEmptyFirst(changesets, dependenciesUpdated, options) ==
  IF Len(dependenciesUpdated) = 0
  THEN Returned(<<>>, <<>>)
  ELSE IF validate(options) # NoError
  THEN Thrown(validate(options), <<Ev("validate")>>)
  ELSE DependencyBlock(changesets, dependenciesUpdated, options)

getDependencyReleaseLine(changesets, dependenciesUpdated, options) ==
  IF validate(options) # NoError
  THEN Thrown(validate(options), <<Ev("validate")>>)
  ELSE IF Len(dependenciesUpdated) = 0
  THEN Returned(<<>>, <<Ev("validate")>>)
  ELSE DependencyBlock(changesets, dependenciesUpdated, options)

----------------------------------------------------------------------------
(* The inputs of the calls.                                                *)

MaxSummaryLines == 3

MaxReleaseLines == 3

MaxMsgChunks == 4

MaxRepoLen == 4

MaxPr == 12

MaxChangesets == 2

MaxDeps == 2

SeqsUpTo(S, n) == UNION {[1..k -> S] : k \in 0..n}

\* Lines of a changeset summary: plain text, metadata entries in their
\* spellings, prefixes without a value, a value without a prefix.
SummaryLines ==
  { <<>>, <<"F", "i", "x", " ", "b">>, <<"p", "r", ":", " ", "#", "1">>, <<"P", "R", ":", "2", " ", "a">>, <<"p", "u", "l", "l", " ", " ", "R", "e", "q", "u", "e", "s", "t", ":", " ", "3">>,
    <<"c", "o", "m", "m", "i", "t", ":", " ", "a", "b">>, <<" ", "c", "o", "m", "m", "i", "t", ":">>, <<"u", "s", "e", "r", ":", " ", "@", "u">>, <<"A", "u", "t", "h", "o", "r", ":">>, <<"p", "r", ":">>,
    <<"1", "2">> }

SummaryInputs ==
  {Join(ls, <<"\n">>) : ls \in SeqsUpTo(SummaryLines, MaxSummaryLines)}

ReleaseSummaryLines == { <<>>, <<" ", "F", "i", "x">>, <<"p", "r", ":", " ", "#", "1", " ", "a">> }

ReleaseSummaries ==
  {Join(ls, <<"\n">>) : ls \in SeqsUpTo(ReleaseSummaryLines, MaxReleaseLines)}

MsgChunks ==
  { <<"a">>, <<" ">>, <<"\n">>, <<"#">>, <<"(">>, <<")">>, <<"1">>, <<"0">>,
    <<"(", "#", "2", ")">> }

MessageInputs ==
  {Undefined} \cup {Some(Join(cs, <<>>)) : cs \in SeqsUpTo(MsgChunks, MaxMsgChunks)}

RepoChars == {"o", "r", "/", " "}

OptionsInputs ==
  { NullOptions, Options(JsUndefined), Options(JsNull), Options(JsNumber(0)),
    Options(JsNumber(123)), Options(JsBoolean(FALSE)), Options(JsBoolean(TRUE)),
    Options(JsObject) }
    \cup {Options(JsString(s)) : s \in SeqsUpTo(RepoChars, MaxRepoLen)}

ValidOptions ==
  { Options(JsString(<<"o", "w", "n", "e", "r", "/", "r", "e", "p", "o">>)), Options(JsString(<<"o", "/", "r">>)) }

HandlerOptions ==
  ValidOptions
    \cup { NullOptions, Options(JsUndefined), Options(JsNumber(123)),
           Options(JsString(<<"o", "w", "n", "e", "r">>)) }

Sha1 == <<"a", "b", "c", "1", "2", "3", "4", "5", "6", "7", "8", "9", "0">>

Sha2 == <<"d", "e", "f", "1", "2", "3", "4", "5", "6", "7", "8", "9", "0">>

ShaShort == <<"a", "b", "c", "1", "2">>

PrInputs == {NoNumber} \cup {SomeNumber(n) : n \in 0..MaxPr}

\* The first lines and bodies of commit messages.
CommitMessages ==
  { <<>>, <<"F", "i", "x">>, <<"F", "i", "x", " ", "(", "#", "1", "2", ")">>, <<"F", "i", "x", " ", "#", "7", " ">>, <<"F", "i", "x", " ", "(", "c", "l", "o", "s", "e", "s", " ", "#", "4", ")", " ", "(", "#", "3", "0", ")">>,
    <<"F", "i", "x", "\n", "\n", "R", "e", "s", "o", "l", "v", "e", "s", " ", "#", "4", "5", "6">>, <<"F", "i", "x", " ", "(", "#", "0", ")">> }

RepoStates ==
  { [discover |-> "throws", shallow |-> "no", githubAction |-> FALSE, cause |-> "could not find repository"],
    [discover |-> "ok", shallow |-> "throws", githubAction |-> FALSE, cause |-> "could not read shallow file"],
    [discover |-> "ok", shallow |-> "no", githubAction |-> FALSE, cause |-> ""],
    [discover |-> "ok", shallow |-> "yes", githubAction |-> FALSE, cause |-> ""],
    [discover |-> "ok", shallow |-> "yes", githubAction |-> TRUE, cause |-> ""] }

\* A repository in which the hash is unknown: findCommit gives null.
NoLookup == [find |-> "null", message |-> "null", text |-> <<>>, cause |-> ""]

Lookups ==
  { [find |-> "throws", message |-> "null", text |-> <<>>, cause |-> "Git error"],
    NoLookup,
    [find |-> "commit", message |-> "throws", text |-> <<>>, cause |-> "Git error"],
    [find |-> "commit", message |-> "null", text |-> <<>>, cause |-> ""] }
    \cup {[find |-> "commit", message |-> "string", text |-> m, cause |-> ""] :
            m \in CommitMessages}

ReleaseChangesets ==
  {[id |-> "changeset-1", summary |-> s, commit |-> c] :
     s \in ReleaseSummaries, c \in {Undefined, Some(Sha1), Some(ShaShort)}}

DependencyChangesets ==
  {[id |-> "changeset-1", summary |-> <<"A", " ", "s", "u", "m", "m", "a", "r", "y">>, commit |-> c] :
     c \in {Undefined, Some(Sha1), Some(Sha2)}}

DependencyBumps ==
  { [name |-> <<"p", "k", "g", "-", "1">>, newVersion |-> <<"1", ".", "0", ".", "0">>, oldVersion |-> <<"0", ".", "9", ".", "8">>,
     type |-> <<"m", "i", "n", "o", "r">>, changesets |-> <<<<"c", "h", "a", "n", "g", "e", "s", "e", "t", "-", "1">>>>],
    [name |-> <<"p", "k", "g", "-", "2">>, newVersion |-> <<"2", ".", "0", ".", "0">>, oldVersion |-> <<"1", ".", "9", ".", "8">>,
     type |-> <<"p", "a", "t", "c", "h">>, changesets |-> <<<<"c", "h", "a", "n", "g", "e", "s", "e", "t", "-", "2">>>>] }

----------------------------------------------------------------------------
(* The state: one call at a time.  pc is "idle" between calls and "done"   *)
(* when a call has settled; call holds its operation and inputs, outcome   *)
(* what it returned or threw, events what it did on the way.               *)

NoCall == [op |-> "none"]

NoOutcome == [kind |-> "none", value |-> <<>>, error |-> NoError]

Outcome(r) == [kind |-> r.kind, value |-> r.value, error |-> r.error]

Init ==
  /\ pc = "idle"
  /\ call = NoCall
  /\ outcome = NoOutcome
  /\ events = <<>>

GetReleaseLine ==
  /\ pc = "idle"
  /\ \E changeset \in ReleaseChangesets, options \in HandlerOptions,
        repo \in RepoStates, lookup \in Lookups :
       \E r \in {getReleaseLine(changeset, options, repo, lookup)} :
           /\ call' = [op |-> "getReleaseLine", changeset |-> changeset,
                       options |-> options, repo |-> repo, lookup |-> lookup]
           /\ outcome' = Outcome(r)
           /\ events' = r.events
  /\ pc' = "done"

GetDependencyReleaseLine ==
  /\ pc = "idle"
  /\ \E changesets \in SeqsUpTo(DependencyChangesets, MaxChangesets),
        dependenciesUpdated \in SeqsUpTo(DependencyBumps, MaxDeps),
        options \in HandlerOptions :
       \E r \in {getDependencyReleaseLine(changesets, dependenciesUpdated, options)} :
           /\ call' = [op |-> "getDependencyReleaseLine", changesets |-> changesets,
                       dependenciesUpdated |-> dependenciesUpdated,
                       options |-> options]
           /\ outcome' = Outcome(r)
           /\ events' = r.events
  /\ pc' = "done"

GetSuffix ==
  /\ pc = "idle"
  /\ \E pr \in PrInputs, commitSha \in {Undefined, Some(Sha1), Some(ShaShort)},
        options \in ValidOptions :
       /\ call' = [op |-> "getSuffix", pr |-> pr, commitSha |-> commitSha,
                   options |-> options]
       /\ outcome' = [kind |-> "return", value |-> getSuffix(pr, commitSha, options),
                      error |-> NoError]
  /\ events' = <<>>
  /\ pc' = "done"

Validate ==
  /\ pc = "idle"
  /\ \E options \in OptionsInputs :
       /\ call' = [op |-> "validate", options |-> options]
       /\ outcome' = [kind |-> IF validate(options) = NoError THEN "return" ELSE "throw",
                      value |-> <<>>, error |-> validate(options)]
  /\ events' = <<>>
  /\ pc' = "done"

CleanSummary ==
  /\ pc = "idle"
  /\ \E summary \in SummaryInputs :
       /\ call' = [op |-> "cleanSummary", summary |-> summary]
       /\ outcome' = [kind |-> "return", value |-> cleanSummary(summary),
                      error |-> NoError]
  /\ events' = <<>>
  /\ pc' = "done"

GetPrNumber ==
  /\ pc = "idle"
  /\ \E commitMessage \in MessageInputs :
       /\ call' = [op |-> "getPrNumber", commitMessage |-> commitMessage]
       /\ outcome' = [kind |-> "return", value |-> getPrNumber(commitMessage),
                      error |-> NoError]
  /\ events' = <<>>
  /\ pc' = "done"

\* The call is over; the component keeps nothing of it.
Return ==
  /\ pc = "done"
  /\ pc' = "idle"
  /\ call' = NoCall
  /\ outcome' = NoOutcome
  /\ events' = <<>>

\* The two changelog functions and the suffix builder they share.
Next == GetReleaseLine \/ GetDependencyReleaseLine \/ GetSuffix \/ Return

Spec == Init /\ [][Next]_vars

NextValidate == Validate \/ Return

SpecValidate == Init /\ [][NextValidate]_vars

NextCleanSummary == CleanSummary \/ Return

SpecCleanSummary == Init /\ [][NextCleanSummary]_vars

NextGetPrNumber == GetPrNumber \/ Return

SpecGetPrNumber == Init /\ [][NextGetPrNumber]_vars

----------------------------------------------------------------------------
(* The properties.  Texts the properties expect are spelled out here,      *)
(* apart from the operators above.                                         *)

ReleaseDone == pc = "done" /\ call.op = "getReleaseLine"

DependencyDone == pc = "done" /\ call.op = "getDependencyReleaseLine"

HasPrefix(s, p) == Len(p) <= Len(s) /\ SubSeq(s, 1, Len(p)) = p

Contains(s, sub) ==
  \E i \in 1..(Len(s) - Len(sub) + 1) : SubSeq(s, i, i + Len(sub) - 1) = sub

\* " ([#N](https://github.com/{repo}/pull/N))"
PrLinkText(n, repo) ==
  <<" ", "(", "[", "#">> \o NumberToString(n) \o <<"]", "(", "h", "t", "t", "p", "s", ":", "/", "/", "g", "i", "t", "h", "u", "b", ".", "c", "o", "m", "/">> \o repo
    \o <<"/", "p", "u", "l", "l", "/">> \o NumberToString(n) \o <<")", ")">>

\* "[{short hash}](https://github.com/{repo}/commit/{hash})", the short hash
\* in a code span.
CommitLinkText(hash, repo) ==
  <<"[", Backtick>> \o SubSeq(hash, 1, IF Len(hash) < 7 THEN Len(hash) ELSE 7)
    \o <<Backtick>> \o <<"]", "(", "h", "t", "t", "p", "s", ":", "/", "/", "g", "i", "t", "h", "u", "b", ".", "c", "o", "m", "/">> \o repo \o <<"/", "c", "o", "m", "m", "i", "t", "/">> \o hash
    \o <<")">>

\* " ([{short hash}](https://github.com/{repo}/commit/{hash}))"
CommitSuffixText(hash, repo) == <<" ", "(">> \o CommitLinkText(hash, repo) \o <<")">>

RECURSIVE IndentText(_)
\* The text s with two spaces put after each of its line breaks.
IndentText(s) ==
  IF s = <<>> THEN <<>>
  ELSE (IF Head(s) = "\n" THEN <<"\n", " ", " ">> ELSE <<Head(s)>>)
         \o IndentText(Tail(s))

\* The commit message getReleaseLine resolved in the call of this state.
ResolvedMsg ==
  IF IsCommit(call.changeset.commit)
  THEN CommitLookup(call.changeset.commit.s, call.lookup).commitMsg
  ELSE Undefined

\* The first line of the cleaned summary of the call of this state.
CleanFirstLine ==
  LET clean == cleanSummary(call.changeset.summary)
      nl == IndexOfNewline(clean)
  IN  IF nl = 0 THEN clean ELSE SubSeq(clean, 1, nl - 1)

\* C1: a release line that is returned is "\n- " + the first line of the
\* cleaned summary + the suffix + "\n" + the remaining lines of the cleaned
\* summary, each (blank ones too) behind two spaces, joined by "\n" with no
\* trailing newline; a one-line summary leaves the rest empty and the line
\* ends with the "\n" after the opening line.
C1_ReleaseLineShape ==
  (ReleaseDone /\ outcome.kind = "return") =>
    LET clean == cleanSummary(call.changeset.summary)
        nl == IndexOfNewline(clean)
        rest == IF nl = 0 THEN <<>>
                ELSE <<" ", " ">> \o IndentText(SubSeq(clean, nl + 1, Len(clean)))
        suffix == getSuffix(getPrNumber(ResolvedMsg), call.changeset.commit,
                            call.options)
    IN  /\ outcome.value = <<"\n", "-", " ">> \o CleanFirstLine \o suffix \o <<"\n">> \o rest
        /\ nl = 0 => outcome.value[Len(outcome.value)] = "\n"
        /\ nl # 0 => outcome.value[Len(outcome.value)] # "\n"

\* A release line with a link whose cleaned summary has three lines, the
\* middle one blank.
C1_Witness ==
  /\ ReleaseDone /\ outcome.kind = "return"
  /\ Len(Split(cleanSummary(call.changeset.summary))) = 3
  /\ Split(cleanSummary(call.changeset.summary))[2] = <<>>
  /\ Contains(outcome.value, <<"\n", " ", " ", "\n", " ", " ">>)
  /\ Contains(outcome.value, <<"]", "(", "h", "t", "t", "p", "s", ":", "/", "/", "g", "i", "t", "h", "u", "b", ".", "c", "o", "m", "/">>)

\* C2: getSuffix returns the pull-request link whenever a PR number is
\* defined, the commit link when only a commit hash is defined, and the empty
\* string exactly when both are absent; a release line carries the
\* pull-request link for every PR number getPrNumber extracts from the
\* resolved commit message.
C2_SuffixPrecedence ==
  /\ (pc = "done" /\ call.op = "getSuffix") =>
       /\ call.pr.def =>
            outcome.value = PrLinkText(call.pr.n, call.options.repo.s)
       /\ (~call.pr.def /\ call.commitSha.def) =>
            outcome.value = CommitSuffixText(call.commitSha.s, call.options.repo.s)
       /\ (outcome.value = <<>>) <=> (~call.pr.def /\ ~call.commitSha.def)
  /\ (ReleaseDone /\ outcome.kind = "return" /\ getPrNumber(ResolvedMsg).def) =>
       HasPrefix(outcome.value,
                 <<"\n", "-", " ">> \o CleanFirstLine
                   \o PrLinkText(getPrNumber(ResolvedMsg).n, call.options.repo.s)
                   \o <<"\n">>)

LookupThrows(lookup) ==
  lookup.find = "throws" \/ (lookup.find = "commit" /\ lookup.message = "throws")

DiscoveryOk(repo) == repo.discover = "ok" /\ repo.shallow # "throws"

\* C3: with valid options and a change record that has a commit, a commit
\* lookup that throws does not abort getReleaseLine: one warning naming the
\* hash and the cause is logged, and the line returned is the one returned
\* when the lookup yields a message without a PR reference: it carries the
\* commit-hash suffix.
C3_LookupFailureDegrades ==
  (/\ ReleaseDone
   /\ call.options \in ValidOptions
   /\ DiscoveryOk(call.repo)
   /\ IsCommit(call.changeset.commit)
   /\ LookupThrows(call.lookup)) =>
    /\ outcome.kind = "return"
    /\ Cardinality({i \in 1..Len(events) :
                      /\ events[i].ev = "warn"
                      /\ events[i].s = call.changeset.commit.s
                      /\ events[i].note
                           = "Failed to get commit message for " \o call.lookup.cause})
         = 1
    /\ outcome.value
         = getReleaseLine(call.changeset, call.options, call.repo,
                          [find |-> "commit", message |-> "string",
                           text |-> <<"F", "i", "x", " ", "a", " ", "b", "u", "g">>, cause |-> ""]).value
    /\ HasPrefix(outcome.value,
                 <<"\n", "-", " ">> \o CleanFirstLine
                   \o CommitSuffixText(call.changeset.commit.s, call.options.repo.s)
                   \o <<"\n">>)

\* findCommit threw for a change record with a commit, and a line came back.
C3_Witness ==
  /\ ReleaseDone
  /\ call.options \in ValidOptions
  /\ IsCommit(call.changeset.commit)
  /\ call.lookup.find = "throws"
  /\ outcome.kind = "return"
  /\ \E i \in 1..Len(events) : events[i].ev = "warn" /\ events[i].s = Sha1

HasCommit(changesets) == \E i \in 1..Len(changesets) : changesets[i].commit.def

\* C4: with valid options and at least one dependency bump, the header is
\* "- Updated dependencies:" when no change record has a commit, and
\* "- Updated dependencies [L1, L2, ...]:" with one commit link per change
\* record that has a commit, in order, otherwise.
C4_HeaderLinks ==
  (DependencyDone /\ call.options \in ValidOptions
     /\ Len(call.dependenciesUpdated) > 0) =>
    /\ outcome.kind = "return"
    /\ Split(outcome.value)[1]
         = IF ~HasCommit(call.changesets) THEN <<"-", " ", "U", "p", "d", "a", "t", "e", "d", " ", "d", "e", "p", "e", "n", "d", "e", "n", "c", "i", "e", "s", ":">>
           ELSE <<"-", " ", "U", "p", "d", "a", "t", "e", "d", " ", "d", "e", "p", "e", "n", "d", "e", "n", "c", "i", "e", "s", " ", "[">>
                  \o Join([i \in 1..Len(SelectSeq(call.changesets, LAMBDA c : c.commit.def)) |->
                             CommitLinkText(
                               SelectSeq(call.changesets, LAMBDA c : c.commit.def)[i].commit.s,
                               call.options.repo.s)],
                          <<",", " ">>)
                  \o <<"]", ":">>

\* C5: with valid options and at least one dependency bump, the block is the
\* header line followed by one line "  - {name}@{newVersion}" per bump, in
\* input order, joined by single newlines with no trailing newline; the old
\* version, the bump type and the changeset ids of a bump are not in it.
C5_BumpLines ==
  (DependencyDone /\ call.options \in ValidOptions
     /\ Len(call.dependenciesUpdated) > 0) =>
    LET lines == Split(outcome.value)
        deps == call.dependenciesUpdated
    IN  /\ outcome.kind = "return"
        /\ Len(lines) = 1 + Len(deps)
        /\ HasPrefix(lines[1], <<"-", " ", "U", "p", "d", "a", "t", "e", "d", " ", "d", "e", "p", "e", "n", "d", "e", "n", "c", "i", "e", "s">>)
        /\ lines[1][Len(lines[1])] = ":"
        /\ \A i \in 1..Len(deps) :
             /\ lines[i + 1] = <<" ", " ", "-", " ">> \o deps[i].name \o <<"@">> \o deps[i].newVersion
             /\ ~Contains(outcome.value, deps[i].oldVersion)
             /\ ~Contains(outcome.value, deps[i].type)
             /\ \A j \in 1..Len(deps[i].changesets) :
                  ~Contains(outcome.value, deps[i].changesets[j])
        /\ outcome.value[Len(outcome.value)] # "\n"

\* Two different bumps, listed in the order given, under a header with links.
C5_Witness ==
  /\ DependencyDone /\ outcome.kind = "return"
  /\ Len(call.dependenciesUpdated) = 2
  /\ call.dependenciesUpdated[1].name = <<"p", "k", "g", "-", "2">>
  /\ call.dependenciesUpdated[2].name = <<"p", "k", "g", "-", "1">>
  /\ HasCommit(call.changesets)
  /\ Split(outcome.value)[2] = <<" ", " ", "-", " ", "p", "k", "g", "-", "2", "@", "2", ".", "0", ".", "0">>
  /\ Split(outcome.value)[3] = <<" ", " ", "-", " ", "p", "k", "g", "-", "1", "@", "1", ".", "0", ".", "0">>


ValidateDone == pc = "done" /\ call.op = "validate"

\* Two non-empty segments without white space or slash around one "/".
WellFormedRepo(s) ==
  /\ Cardinality({i \in 1..Len(s) : s[i] = "/"}) = 1
  /\ Len(s) >= 3 /\ s[1] # "/" /\ s[Len(s)] # "/"
  /\ \A i \in 1..Len(s) : s[i] \notin {" ", "\t", "\n", "\r", "\f"}

\* The repo property is absent, null or the empty string.
RepoAbsentOrEmpty(options) ==
  \/ options.isNull
  \/ options.repo.t \in {"undefined", "null"}
  \/ (options.repo.t = "string" /\ options.repo.s = <<>>)

\* The repo property is absent or a falsy value: null, '', 0, false.
RepoFalsy(options) ==
  \/ RepoAbsentOrEmpty(options)
  \/ (options.repo.t = "number" /\ options.repo.n = 0)
  \/ (options.repo.t = "boolean" /\ ~options.repo.b)

\* validate under a partition of its inputs: the missing-repo error exactly
\* for missing, the invalid-format error exactly for the other inputs whose
\* repo is not a well-formed string, a plain return for the rest.
ValidateClasses(missing) ==
  LET wellFormed == call.options.repo.t = "string"
                      /\ WellFormedRepo(call.options.repo.s)
  IN  /\ outcome.error = MissingRepoError <=> missing
      /\ outcome.error = InvalidRepoFormatError <=> (~missing /\ ~wellFormed)
      /\ (outcome.kind = "return" /\ outcome.error = NoError)
           <=> (~missing /\ wellFormed)
      /\ outcome.kind = "throw"
           <=> outcome.error \in {MissingRepoError, InvalidRepoFormatError}

\* C6 as stated: the missing-repo error exactly when options is absent/null
\* or has no non-empty repo, the invalid-format error exactly when repo is
\* present and not a string or a malformed string, a return otherwise.
C6_ValidateClassesAsStated ==
  ValidateDone => ValidateClasses(RepoAbsentOrEmpty(call.options))

\* C6, amended: the missing-repo error exactly when options is absent/null or
\* repo is absent or falsy (null, '', 0, false); the invalid-format error
\* exactly when repo is truthy and not a string, or a non-empty string that is
\* not two non-empty segments without white space or slash around one "/";
\* a return without error in every other case.
C6_ValidateClasses ==
  ValidateDone => ValidateClasses(RepoFalsy(call.options))

\* validate({ repo: 0 }) threw the missing-repo error.
C6_Witness ==
  /\ ValidateDone
  /\ call.options = Options(JsNumber(0))
  /\ outcome.kind = "throw" /\ outcome.error = MissingRepoError

HandlerDone ==
  pc = "done" /\ call.op \in {"getReleaseLine", "getDependencyReleaseLine"}

\* C7: with invalid options both changelog functions reject with the error of
\* validate and no output, and validation is all they did: no discovery, no
\* commit lookup, no warning, no URL; getDependencyReleaseLine also when the
\* list of bumps is empty.
C7_ValidationFirst ==
  (HandlerDone /\ call.options \notin ValidOptions) =>
    /\ outcome.kind = "throw"
    /\ outcome.error \in {MissingRepoError, InvalidRepoFormatError}
    /\ outcome.error = validate(call.options)
    /\ outcome.value = <<>>
    /\ events = <<Ev("validate")>>

\* getDependencyReleaseLine rejected invalid options with no bumps given.
C7_Witness ==
  /\ DependencyDone
  /\ call.options = Options(JsUndefined)
  /\ Len(call.dependenciesUpdated) = 0
  /\ outcome.kind = "throw" /\ outcome.error = MissingRepoError

RECURSIVE DecimalValue(_, _)
\* The value of a run of digits, read from the left onto acc.
DecimalValue(digits, acc) ==
  IF digits = <<>> THEN acc
  ELSE DecimalValue(Tail(digits), 10 * acc + DigitValue(Head(digits)))

\* The start of the run of digits of s that ends at position e (e + 1 when
\* the character at e is no digit).
DigitRunStart(s, e) ==
  CHOOSE k \in 1..(e + 1) :
    /\ \A j \in k..e : s[j] \in Digits
    /\ (k = 1 \/ s[k - 1] \notin Digits)

\* The "#<digits>" reference that ends the line, read backwards from its end:
\* "(#N)" at the very end, or a bare "#N" at the end.
TrailingRef(line) ==
  LET e == Len(line)
      k == IF e > 0 /\ line[e] = ")" THEN DigitRunStart(line, e - 1)
           ELSE DigitRunStart(line, e)
  IN  IF e > 0 /\ line[e] = ")"
      THEN IF k <= e - 1 /\ k >= 3 /\ line[k - 1] = "#" /\ line[k - 2] = "("
           THEN SomeNumber(DecimalValue(SubSeq(line, k, e - 1), 0)) ELSE NoNumber
      ELSE IF k <= e /\ k >= 2 /\ line[k - 1] = "#"
           THEN SomeNumber(DecimalValue(SubSeq(line, k, e), 0)) ELSE NoNumber

\* The text of s before its first line break.
FirstLineOf(s) ==
  IF IndexOfNewline(s) = 0 THEN s ELSE SubSeq(s, 1, IndexOfNewline(s) - 1)

\* C8: getPrNumber returns absent for an absent or empty message; otherwise
\* the value of the "#<digits>" reference that ends the trimmed first line,
\* as "(#N)" or bare "#N", and absent when that line does not end in one;
\* earlier references are ignored.
C8_TrailingReference ==
  (pc = "done" /\ call.op = "getPrNumber") =>
    outcome.value
      = IF ~call.commitMessage.def \/ call.commitMessage.s = <<>> THEN NoNumber
        ELSE TrailingRef(Trim(FirstLineOf(call.commitMessage.s)))

\* A first line with two references: the last one is returned.
C8_Witness ==
  /\ pc = "done" /\ call.op = "getPrNumber"
  /\ call.commitMessage = Some(<<"#", "1", " ", "(", "#", "2", ")">>)
  /\ outcome.value = SomeNumber(2)

CleanDone == pc = "done" /\ call.op = "cleanSummary"

\* C9: cleanSummary(cleanSummary(s)) = cleanSummary(s).
C9_CleanSummaryIdempotent ==
  CleanDone => cleanSummary(outcome.value) = outcome.value

\* The line without the entry of re it starts with.
WithoutEntry(re, line) == SubSeq(line, MatchEnd(re, line, 1), Len(line))

\* The lines with the entry of re removed from the first line that starts
\* with one.
RemoveFirstEntry(re, lines) ==
  LET hits == {i \in 1..Len(lines) : MatchEnd(re, lines[i], 1) # 0}
  IN  [i \in 1..Len(lines) |->
         IF i \in hits /\ \A h \in hits : i <= h
         THEN WithoutEntry(re, lines[i]) ELSE lines[i]]

\* The lines with the entry of re removed from every line that starts with
\* one.
RemoveAllEntries(re, lines) ==
  [i \in 1..Len(lines) |->
     IF MatchEnd(re, lines[i], 1) # 0 THEN WithoutEntry(re, lines[i])
     ELSE lines[i]]

\* C10: cleanSummary removes the first line-leading pr entry, the first
\* line-leading commit entry and every line-leading author/user entry, and
\* trims; every other line and the line breaks between the lines stay as they
\* are; without such a prefix the result is the trimmed summary.
C10_LineWiseRemoval ==
  CleanDone =>
    outcome.value
      = Trim(Join(RemoveAllEntries("author",
                    RemoveFirstEntry("commit",
                      RemoveFirstEntry("pr", Split(call.summary)))),
                  <<"\n">>))


\* The warnings the catch block of the commit lookup can log.
LookupWarnings == {"Failed to get commit message for " \o l.cause : l \in Lookups}

\* C11: a getReleaseLine call whose change record has no commit hash performs
\* no commit lookup (no findCommit, no message read), logs no lookup warning
\* and builds no link: a line it returns is "\n- " + the first line of the
\* cleaned summary + "\n" + the indented remaining lines.
C11_NoCommitNoLookup ==
  (ReleaseDone /\ ~call.changeset.commit.def) =>
    /\ \A i \in 1..Len(events) :
         /\ events[i].ev \notin {"findCommit", "message", "getRepoUrl"}
         /\ events[i].ev = "warn" => events[i].note \notin LookupWarnings
    /\ outcome.kind = "return" =>
         LET clean == cleanSummary(call.changeset.summary)
             nl == IndexOfNewline(clean)
         IN  /\ HasPrefix(outcome.value, <<"\n", "-", " ">> \o CleanFirstLine \o <<"\n">>)
             /\ outcome.value
                  = <<"\n", "-", " ">> \o CleanFirstLine \o <<"\n">>
                      \o (IF nl = 0 THEN <<>>
                          ELSE <<" ", " ">>
                                 \o IndentText(SubSeq(clean, nl + 1, Len(clean))))
             /\ ~Contains(outcome.value, <<"]", "(", "h", "t", "t", "p", "s", ":", "/", "/">>)

\* A change record without a commit, in a repository whose findCommit would
\* throw, on a shallow clone: a line came back, the only warning is the
\* shallow-clone one.
C11_Witness ==
  /\ ReleaseDone /\ ~call.changeset.commit.def
  /\ call.lookup.find = "throws"
  /\ call.repo.shallow = "yes"
  /\ outcome.kind = "return"
  /\ Len(cleanSummary(call.changeset.summary)) > 0


\* The suffix of a returned release line whose cleaned summary starts with
\* firstLine: what follows "- " + firstLine on the line after the opening
\* line break.
SuffixIn(value, firstLine) ==
  LET line == Split(value)[2]
  IN  SubSeq(line, 3 + Len(firstLine), Len(line))

\* The suffix of the call of this state.
OutputSuffix == SuffixIn(outcome.value, CleanFirstLine)

\* The suffix of the call of this state made with the summary " Fix", which
\* has no metadata entry, and everything else the same.
PlainSummarySuffix ==
  SuffixIn(getReleaseLine([call.changeset EXCEPT !.summary = <<" ", "F", "i", "x">>],
                          call.options, call.repo, call.lookup).value,
           <<"F", "i", "x">>)

\* The suffix of the call of this state made with a summary that has a pr
\* entry and a commit entry, and everything else the same.
MetadataSummarySuffix ==
  SuffixIn(getReleaseLine([call.changeset EXCEPT
                             !.summary = <<"p", "r", ":", " ", "#", "9">> \o <<"\n">> \o <<"c", "o", "m", "m", "i", "t", ":", " ", "d", "e", "f", "1", "2">>
                                           \o <<"\n">> \o <<"F", "i", "x">>],
                          call.options, call.repo, call.lookup).value,
           <<"F", "i", "x">>)

\* C12: the suffix of a returned release line is a function of the resolved
\* commit message, the commit hash and the repo option: it is the suffix of
\* the same call made with a summary without metadata and of the one made
\* with a summary that has a pr and a commit entry, so calls that differ only
\* in the summary have the same suffix; a pull-request link in it
\* carries the number of the commit message, never one of the summary.
C12_SuffixIgnoresSummary ==
  (ReleaseDone /\ outcome.kind = "return") =>
    /\ OutputSuffix = PlainSummarySuffix
    /\ OutputSuffix = MetadataSummarySuffix
    /\ OutputSuffix
         \in {<<>>,
              CommitSuffixText(call.changeset.commit.s, call.options.repo.s),
              PrLinkText(getPrNumber(ResolvedMsg).n, call.options.repo.s)}
    /\ Contains(OutputSuffix, <<"/", "p", "u", "l", "l", "/">>) =>
         /\ getPrNumber(ResolvedMsg).def
         /\ OutputSuffix
              = PrLinkText(getPrNumber(ResolvedMsg).n, call.options.repo.s)
    /\ ~call.changeset.commit.def => OutputSuffix = <<>>

\* A summary with the entry "pr: #1" and a commit message that ends in
\* "(#12)": the link is the one of pull request 12.
C12_Witness ==
  /\ ReleaseDone /\ outcome.kind = "return"
  /\ MatchStart("pr", call.changeset.summary, 1) # 0
  /\ ResolvedMsg = Some(<<"F", "i", "x", " ", "(", "#", "1", "2", ")">>)
  /\ OutputSuffix = PrLinkText(12, call.options.repo.s)


GetPrNumberDone == pc = "done" /\ call.op = "getPrNumber"

\* C13: for a message line + "\n" + rest, line without a line break,
\* getPrNumber gives what it gives for line alone, whatever rest is; when
\* line holds no "#", a reference in rest yields no number.
C13_FirstLineOnly ==
  (/\ GetPrNumberDone
   /\ call.commitMessage.def
   /\ IndexOfNewline(call.commitMessage.s) # 0) =>
    LET line == FirstLineOf(call.commitMessage.s)
    IN  /\ outcome.value = getPrNumber(Some(line))
        /\ (\A i \in 1..Len(line) : line[i] # "#") => outcome.value = NoNumber

\* "#1" on the first line and "(#2)" on the second: the number is 1.
C13_Witness ==
  /\ GetPrNumberDone
  /\ call.commitMessage = Some(<<"#", "1", "\n", "(", "#", "2", ")">>)
  /\ outcome.value = SomeNumber(1)

\* "a" on the first line and "#1" on the second: no number.
C13_WitnessLaterLine ==
  /\ GetPrNumberDone
  /\ call.commitMessage = Some(<<"a", "\n", "#", "1">>)
  /\ outcome.value = NoNumber


\* C14: with valid options and no dependency bump, getDependencyReleaseLine
\* returns the empty string whatever the change records are: no header, no
\* commit link, no URL is built.
C14_NoBumpsNoBlock ==
  (/\ DependencyDone
   /\ call.options \in ValidOptions
   /\ Len(call.dependenciesUpdated) = 0) =>
    /\ outcome.kind = "return" /\ outcome.error = NoError
    /\ outcome.value = <<>>
    /\ ~Contains(outcome.value, <<"U", "p", "d", "a", "t", "e", "d">>)
    /\ events = <<Ev("validate")>>

\* No bump and two change records, one of them with a commit: the empty
\* string came back.
C14_Witness ==
  /\ DependencyDone
  /\ call.options \in ValidOptions
  /\ Len(call.dependenciesUpdated) = 0
  /\ Len(call.changesets) = 2 /\ HasCommit(call.changesets)
  /\ outcome.kind = "return" /\ outcome.value = <<>>


\* The warnings about a shallow clone among the events.
ShallowWarningsLogged ==
  {i \in 1..Len(events) :
     /\ events[i].ev = "warn"
     /\ events[i].note
          \in {"The repository is shallow cloned, so PR links may not work.",
               "The repository is shallow cloned, so PR links may not work. See https://github.com/actions/checkout#fetch-all-history-for-all-tags-and-branches to fetch all the history."}}

\* The call of this state in a repository that is a full clone.
FullCloneOutcome ==
  Outcome(getReleaseLine(call.changeset, call.options,
                         [call.repo EXCEPT !.shallow = "no"], call.lookup))

\* C15: with valid options, a failure of Repository.discover or of the
\* shallow test makes getReleaseLine throw "Repository.discover failed: " +
\* the message of the cause: nothing is returned, the summary is not cleaned,
\* no commit is looked up, nothing is logged, no line with or without a link
\* comes back.  On a shallow clone one warning is logged, worded after
\* GITHUB_ACTION, and the outcome is the one of a full clone; on a full clone
\* no such warning is logged.
C15_DiscoveryFailureFatal ==
  (ReleaseDone /\ call.options \in ValidOptions) =>
    /\ (call.repo.discover = "throws" \/ call.repo.shallow = "throws") =>
         /\ outcome.kind = "throw"
         /\ outcome.error = "Repository.discover failed: " \o call.repo.cause
         /\ outcome.value = <<>>
         /\ \A i \in 1..Len(events) :
              events[i].ev \in {"validate", "discover", "isShallow"}
    /\ (call.repo.discover = "ok" /\ call.repo.shallow = "yes") =>
         /\ Cardinality(ShallowWarningsLogged) = 1
         /\ \A i \in ShallowWarningsLogged :
              events[i].note
                = IF call.repo.githubAction
                  THEN "The repository is shallow cloned, so PR links may not work. See https://github.com/actions/checkout#fetch-all-history-for-all-tags-and-branches to fetch all the history."
                  ELSE "The repository is shallow cloned, so PR links may not work."
         /\ outcome = FullCloneOutcome
         /\ outcome.kind = "return"
    /\ (call.repo.discover = "ok" /\ call.repo.shallow = "no") =>
         ShallowWarningsLogged = {}

\* Discovery failed for a change record with a commit whose lookup would
\* have given a message with a PR reference: the call threw.
C15_Witness ==
  /\ ReleaseDone /\ call.options \in ValidOptions
  /\ call.repo.discover = "throws"
  /\ call.changeset.commit = Some(Sha1)
  /\ call.lookup.message = "string" /\ call.lookup.text = <<"F", "i", "x", " ", "(", "#", "1", "2", ")">>
  /\ outcome.kind = "throw"
  /\ outcome.error = "Repository.discover failed: could not find repository"

\* A shallow clone under GITHUB_ACTION: a line with a PR link came back.
C15_WitnessShallow ==
  /\ ReleaseDone /\ call.options \in ValidOptions
  /\ call.repo.shallow = "yes" /\ call.repo.githubAction
  /\ outcome.kind = "return"
  /\ Contains(outcome.value, <<"/", "p", "u", "l", "l", "/", "1", "2">>)


\* The positions of the events of kind e.
EventsOf(e) == {i \in 1..Len(events) : events[i].ev = e}

\* C16: a getReleaseLine call with valid options discovers the repository
\* exactly once, right after validation and before the summary is cleaned and
\* before any commit lookup, with or without a commit hash in the change
\* record; a change record without a commit hash fails too when discovery
\* fails.  getDependencyReleaseLine discovers no repository and looks up no
\* commit on any path.
C16_DiscoveryOrder ==
  /\ (ReleaseDone /\ call.options \in ValidOptions) =>
       /\ Cardinality(EventsOf("discover")) = 1
       /\ Cardinality(EventsOf("validate")) = 1
       /\ events[1].ev = "validate" /\ events[2].ev = "discover"
       /\ \A i \in EventsOf("cleanSummary") \cup EventsOf("findCommit")
                     \cup EventsOf("message") \cup EventsOf("getRepoUrl") :
            \A d \in EventsOf("discover") : d < i
       /\ \A i \in EventsOf("findCommit") :
            \A c \in EventsOf("cleanSummary") : c < i
       /\ (~call.changeset.commit.def /\ ~DiscoveryOk(call.repo)) =>
            /\ outcome.kind = "throw"
            /\ outcome.error = "Repository.discover failed: " \o call.repo.cause
  /\ DependencyDone =>
       \A i \in 1..Len(events) :
         events[i].ev \notin {"discover", "isShallow", "findCommit", "message"}

\* A change record without a commit, a summary without metadata and a
\* repository that cannot be discovered: the call threw after discovery.
C16_Witness ==
  /\ ReleaseDone /\ call.options \in ValidOptions
  /\ ~call.changeset.commit.def
  /\ call.repo.discover = "throws"
  /\ outcome.kind = "throw"
  /\ events = <<Ev("validate"), Ev("discover")>>

====
